---------------------------- MODULE Spec2Model ----------------------------
(***************************************************************************)
(* A model of the purchase-order line-item parser (parsers/single_page.py, *)
(* parsers/multi_page.py) and of the batch driver run() of run_agent.py.   *)
(*                                                                         *)
(* Text is modelled character by character: a Python str is a sequence of  *)
(* one-character strings, and every regular expression of the source is    *)
(* transcribed as a syntax tree that a small backtracking matcher runs     *)
(* with the priorities of Python's re (greedy before lazy alternatives,    *)
(* leftmost match first).                                                  *)
(***************************************************************************)
EXTENDS Integers, Sequences, FiniteSets, TLC

(***************************************************************************)
(* Characters and the str methods the parsers use.                         *)
(***************************************************************************)
Digits == {"0","1","2","3","4","5","6","7","8","9"}

UpperSeq == <<"A","B","C","D","E","F","G","H","I","J","K","L","M",
              "N","O","P","Q","R","S","T","U","V","W","X","Y","Z">>

LowerSeq == <<"a","b","c","d","e","f","g","h","i","j","k","l","m",
              "n","o","p","q","r","s","t","u","v","w","x","y","z">>

UpperChars == {UpperSeq[i] : i \in DOMAIN UpperSeq}

LowerChars == {LowerSeq[i] : i \in DOMAIN LowerSeq}

\* what \s and str.strip() treat as whitespace (the ASCII part)
Whitespace == {" ", "\t", "\n", "\r", "\f"}

\* the line boundaries str.splitlines() splits on (the ASCII part)
LineBreaks == {"\n", "\r", "\f"}

LowerChar(c) ==
    IF c \in UpperChars
        THEN LowerSeq[CHOOSE i \in DOMAIN UpperSeq : UpperSeq[i] = c]
        ELSE c

(***************************************************************************)
(* Let(v, F) is F(v) with v evaluated once: TLC evaluates an operator's    *)
(* argument each time the operator's body mentions it, and a variable      *)
(* bound by a set constructor only once.                                   *)
(***************************************************************************)
Only(S) == CHOOSE x \in S : TRUE

Let(v, F(_)) == Only({F(x) : x \in {v}})

Min(S) == CHOOSE i \in S : \A j \in S : i <= j

Max(S) == CHOOSE i \in S : \A j \in S : i >= j

\* the sequence f[1], ..., f[n], each element evaluated once
AsSeq(f, n) == SubSeq(f, 1, n)

\* [f(x) for x in seq]
MapSeq(f(_), seq) == AsSeq([i \in DOMAIN seq |-> f(seq[i])], Len(seq))

\* str.lower()
Lower(s) == MapSeq(LowerChar, s)

\* s[a:b] for 1-based positions a..b-1
Slice(s, a, b) == SubSeq(s, a, b - 1)

\* str.strip()
Strip(s) ==
    Let({i \in DOMAIN s : s[i] \notin Whitespace},
        LAMBDA keep : IF keep = {} THEN <<>>
                      ELSE SubSeq(s, Min(keep), Max(keep)))

\* the Python test `sub in s` on strings
Contains(s, sub) ==
    \E i \in 0..(Len(s) - Len(sub)) : SubSeq(s, i + 1, i + Len(sub)) = sub

RECURSIVE ConcatFrom(_, _)
ConcatFrom(ss, k) ==
    IF k > Len(ss) THEN <<>> ELSE ss[k] \o ConcatFrom(ss, k + 1)

\* the concatenation of a sequence of sequences
Concat(ss) == ConcatFrom(ss, 1)

RECURSIVE JoinFrom(_, _, _)
JoinFrom(sep, parts, k) ==
    IF k > Len(parts) THEN <<>>
    ELSE IF k = Len(parts) THEN parts[k]
    ELSE parts[k] \o sep \o JoinFrom(sep, parts, k + 1)

\* sep.join(parts)
JoinWith(sep, parts) == JoinFrom(sep, parts, 1)

\* where the line that starts at start ends, and where the next one starts
LineEnd(s, start) ==
    Let({i \in start..Len(s) : s[i] \in LineBreaks},
        LAMBDA breaks :
            IF breaks = {} THEN [last |-> TRUE, end |-> Len(s) + 1, next |-> 0]
            ELSE Let(Min(breaks), LAMBDA i :
                    [last |-> FALSE, end |-> i,
                     next |-> IF s[i] = "\r" /\ i < Len(s) /\ s[i + 1] = "\n"
                                  THEN i + 2 ELSE i + 1]))

RECURSIVE SplitLinesFrom(_, _)
\* str.splitlines(): cut at every line boundary ("\r\n" counts once); the
\* text after the last boundary is a line only when it is not empty
SplitLinesFrom(s, start) ==
    Let(LineEnd(s, start), LAMBDA e :
        IF e.last
            THEN IF start > Len(s) THEN <<>> ELSE <<Slice(s, start, e.end)>>
            ELSE <<Slice(s, start, e.end)>> \o SplitLinesFrom(s, e.next))

splitlines(s) == SplitLinesFrom(s, 1)

(***************************************************************************)
(* Regular expressions.  A pattern is a tree of nodes; Match gives, in the *)
(* order Python's backtracking matcher tries them, every way the node      *)
(* matches s from position i: a sequence of <<end, groups>>, where groups  *)
(* maps a group number to its <<start, end>> span (<<0, 0>> when unset).   *)
(***************************************************************************)
Unbounded == 0 - 1

Node(t, cs, neg, xs, lo, hi, lazy, n) ==
    [t |-> t, cs |-> cs, neg |-> neg, xs |-> xs, lo |-> lo, hi |-> hi,
     lazy |-> lazy, n |-> n]

\* [abc]
Cls(cs) == Node("cls", cs, FALSE, <<>>, 1, 1, FALSE, 0)

\* [^abc]
NotCls(cs) == Node("cls", cs, TRUE, <<>>, 1, 1, FALSE, 0)

\* . (anything but a newline)
AnyChar == NotCls({"\n"})

\* x y z
Cat(xs) == Node("cat", {}, FALSE, xs, 1, 1, FALSE, 0)

\* x{lo,hi}, greedy
Rep(x, lo, hi) == Node("rep", {}, FALSE, <<x>>, lo, hi, FALSE, 0)

\* x{lo,hi}?, lazy
LazyRep(x, lo, hi) == Node("rep", {}, FALSE, <<x>>, lo, hi, TRUE, 0)

\* (x), capturing group n
Grp(n, x) == Node("grp", {}, FALSE, <<x>>, 1, 1, FALSE, n)

\* x | y
Alt(x, y) == Node("alt", {}, FALSE, <<x, y>>, 1, 1, FALSE, 0)

\* ^
Bos == Node("bos", {}, FALSE, <<>>, 1, 1, FALSE, 0)

\* $
Eos == Node("eos", {}, FALSE, <<>>, 1, 1, FALSE, 0)

\* x?
Opt(x) == Rep(x, 0, 1)

\* x*
Star(x) == Rep(x, 0, Unbounded)

\* x+
Plus(x) == Rep(x, 1, Unbounded)

\* \d and \s
D == Cls(Digits)

Sp == Cls(Whitespace)

Lit(c) == Cls({c})

MaxGroups == 4

NoGroups == [g \in 1..MaxGroups |-> <<0, 0>>]

RECURSIVE Match(_, _, _, _), MatchCat(_, _, _, _), MatchRep(_, _, _, _, _)

\* what follows, for each way (in order) the part before matched
Each(paths, Rest(_, _)) ==
    Concat(AsSeq([p \in DOMAIN paths |-> Rest(paths[p][1], paths[p][2])],
                 Len(paths)))

\* c is in the class
InCls(re, c) == (c \in re.cs) # re.neg

\* the length of the run of characters of the class from position i
RunLength(re, s, i) ==
    Let({j \in i..Len(s) : ~InCls(re, s[j])}, LAMBDA stop :
        IF stop = {} THEN Len(s) + 1 - i ELSE Min(stop) - i)

\* a repeated class: every length from lo up to the run's (or hi), the
\* longest first when greedy, the shortest first when lazy
MatchRun(re, s, i, groups) ==
    Let(RunLength(re.xs[1], s, i), LAMBDA run :
        Let(IF re.hi # Unbounded /\ re.hi < run THEN re.hi ELSE run,
            LAMBDA n :
                IF n < re.lo THEN <<>>
                ELSE AsSeq([k \in 1..(n - re.lo + 1) |->
                              <<IF re.lazy THEN i + re.lo + (k - 1)
                                           ELSE i + n - (k - 1), groups>>],
                           n - re.lo + 1)))

Match(re, s, i, groups) ==
    CASE re.t = "cls" ->
            IF i <= Len(s) /\ InCls(re, s[i])
                THEN << <<i + 1, groups>> >> ELSE <<>>
      [] re.t = "bos" -> IF i = 1 THEN << <<i, groups>> >> ELSE <<>>
      [] re.t = "eos" ->
            IF i = Len(s) + 1 \/ (i = Len(s) /\ s[i] = "\n")
                THEN << <<i, groups>> >> ELSE <<>>
      [] re.t = "cat" -> MatchCat(re.xs, 1, s, << <<i, groups>> >>)
      [] re.t = "alt" ->
            Match(re.xs[1], s, i, groups) \o Match(re.xs[2], s, i, groups)
      [] re.t = "rep" ->
            IF re.xs[1].t = "cls" THEN MatchRun(re, s, i, groups)
            ELSE MatchRep(re, s, i, groups, 0)
      [] re.t = "grp" ->
            Let(Match(re.xs[1], s, i, groups), LAMBDA inner :
                Each(inner, LAMBDA j, g :
                    << <<j, [g EXCEPT ![re.n] = <<i, j>>]>> >>))

\* xs[k], xs[k+1], ... after each of the ways xs[1..k-1] matched
MatchCat(xs, k, s, paths) ==
    IF k > Len(xs) \/ paths = <<>> THEN paths
    ELSE Let(Each(paths, LAMBDA j, g : Match(xs[k], s, j, g)),
             LAMBDA next : MatchCat(xs, k + 1, s, next))

\* count repetitions done: one more (a repetition that consumed nothing is
\* not repeated), or stop; greedy tries one more first, lazy stops first
MatchRep(re, s, i, groups, count) ==
    Let(IF re.hi = Unbounded \/ count < re.hi
            THEN Let(SelectSeq(Match(re.xs[1], s, i, groups),
                               LAMBDA q : q[1] > i),
                     LAMBDA fwd :
                        Each(fwd, LAMBDA j, g :
                                MatchRep(re, s, j, g, count + 1)))
            ELSE <<>>,
        LAMBDA more :
            IF count < re.lo THEN more
            ELSE IF re.lazy THEN << <<i, groups>> >> \o more
            ELSE more \o << <<i, groups>> >>)

\* what a match object carries: whether it matched, its span and its groups
NoMatch == [ok |-> FALSE, start |-> 0, end |-> 0, groups |-> NoGroups]

FirstOf(paths, i) ==
    IF paths = <<>> THEN NoMatch
    ELSE [ok |-> TRUE, start |-> i, end |-> paths[1][1],
          groups |-> paths[1][2]]

MatchAt(re, s, i) ==
    Let(Match(re, s, i, NoGroups), LAMBDA paths : FirstOf(paths, i))

\* pattern.match(s)
ReMatch(re, s) == MatchAt(re, s, 1)

\* pattern.fullmatch(s): the first way that ends at the end of s
ReFullMatch(re, s) ==
    Let(SelectSeq(Match(re, s, 1, NoGroups), LAMBDA q : q[1] = Len(s) + 1),
        LAMBDA paths : FirstOf(paths, 1))

\* pattern.search(s, pos): the leftmost match starting at or after i
SearchFrom(re, s, i) ==
    Let({j \in i..(Len(s) + 1) : Match(re, s, j, NoGroups) # <<>>},
        LAMBDA starts :
            IF starts = {} THEN NoMatch ELSE MatchAt(re, s, Min(starts)))

ReSearch(re, s) == SearchFrom(re, s, 1)

\* m.group(g)
Group(m, s, g) == Slice(s, m.groups[g][1], m.groups[g][2])

\* m.group(0)
Group0(m, s) == Slice(s, m.start, m.end)

RECURSIVE SubFrom(_, _, _, _)
\* re.sub(pattern, repl, s) for a pattern that never matches the empty string
SubFrom(re, repl, s, i) ==
    Let(SearchFrom(re, s, i), LAMBDA m :
        IF ~m.ok \/ m.end = m.start THEN Slice(s, i, Len(s) + 1)
        ELSE Slice(s, i, m.start) \o repl \o SubFrom(re, repl, s, m.end))

ReSub(re, repl, s) == SubFrom(re, repl, s, 1)

RECURSIVE SplitFrom(_, _, _)
\* re.split(pattern, s) for a pattern that never matches the empty string
SplitFrom(re, s, i) ==
    Let(SearchFrom(re, s, i), LAMBDA m :
        IF ~m.ok \/ m.end = m.start THEN <<Slice(s, i, Len(s) + 1)>>
        ELSE <<Slice(s, i, m.start)>> \o SplitFrom(re, s, m.end))

ReSplit(re, s) == SplitFrom(re, s, 1)

(***************************************************************************)
(*                     parsers/single_page.py: helpers                     *)
(***************************************************************************)
\* \$?\s*\d{1,3}(?:,\d{3})*(?:\.\d{2})?
MONEY_RX ==
    Cat(<<Opt(Lit("$")), Star(Sp), Rep(D, 1, 3),
          Star(Cat(<<Lit(","), Rep(D, 3, 3)>>)),
          Opt(Cat(<<Lit("."), Rep(D, 2, 2)>>))>>)

\* \d+(?:\.\d+)?
QTY_RX == Cat(<<Plus(D), Opt(Cat(<<Lit("."), Plus(D)>>))>>)

\* [^\d\.,]
NOT_MONEY_CHAR_RX == NotCls(Digits \cup {".", ","})

\* [^\d]
NOT_DIGIT_RX == NotCls(Digits)

\* \s{2,}
WIDE_GAP_RX == Rep(Sp, 2, Unbounded)

\* [^a-z0-9]+
NOT_ALNUM_RX == Plus(NotCls(LowerChars \cup Digits))

clean_money(s) ==
    Let(Strip(s), LAMBDA t : ReSub(NOT_MONEY_CHAR_RX, <<>>, t))

clean_qty(s) ==
    Let(s, LAMBDA t :
        Let(ReSearch(QTY_RX, t), LAMBDA m :
            IF m.ok THEN Group0(m, t) ELSE <<>>))

STOP_HINTS == {
    <<"s","u","b","t","o","t","a","l">>,
    <<"t","o","t","a","l">>,
    <<"t","a","x">>,
    <<"f","r","e","i","g","h","t">>,
    <<"g","r","a","n","d"," ","t","o","t","a","l">>}

\* a slip in the stop test: no line is taken for a total
NeverTotalLike(s) == FALSE

is_total_like(s) ==
    Let(Lower(s), LAMBDA l : \E k \in STOP_HINTS : Contains(l, k))

(***************************************************************************)
(*                            header detection                             *)
(***************************************************************************)
\* line
K_line == <<"l","i","n","e">>

\* item
K_item == <<"i","t","e","m">>

\* desc
K_desc == <<"d","e","s","c">>

\* qty
K_qty == <<"q","t","y">>

\* unit
K_unit == <<"u","n","i","t">>

\* ext
K_ext == <<"e","x","t">>

HEADER_ALIASES == <<
    [canon |-> K_line, aliases |-> {
          <<"l","i","n","e">>,
          <<"l","i","n","e","#">>,
          <<"l","n">>,
          <<"l","n","#">>,
          <<"l","n"," ","n","o">>,
          <<"l","i","n","e"," ","n","o">>,
          <<"l","i","n","e"," ","n","u","m","b","e","r">>}],
    [canon |-> K_item, aliases |-> {
          <<"i","t","e","m">>,
          <<"s","k","u">>,
          <<"i","t","e","m","#">>,
          <<"i","t","e","m"," ","n","o">>,
          <<"i","t","e","m"," ","n","u","m","b","e","r">>,
          <<"p","r","o","d","u","c","t">>,
          <<"c","o","d","e">>}],
    [canon |-> K_desc, aliases |-> {
          <<"d","e","s","c">>,
          <<"d","e","s","c","r","i","p","t","i","o","n">>,
          <<"i","t","e","m"," ","d","e","s","c","r","i","p","t","i","o","n">>,
          <<"p","r","o","d"," ","d","e","s","c">>}],
    [canon |-> K_qty, aliases |-> {
          <<"q","t","y">>,
          <<"q","u","a","n","t","i","t","y">>,
          <<"o","r","d","e","r"," ","q","t","y">>,
          <<"o","r","d","e","r","e","d">>,
          <<"o","r","d"," ","q","t","y">>}],
    [canon |-> K_unit, aliases |-> {
          <<"u","n","i","t">>,
          <<"u","n","i","t"," ","p","r","i","c","e">>,
          <<"p","r","i","c","e">>,
          <<"u",".","p","r","i","c","e">>,
          <<"u","n","i","t"," ","c","o","s","t">>,
          <<"c","o","s","t">>}],
    [canon |-> K_ext, aliases |-> {
          <<"e","x","t","e","n","d","e","d">>,
          <<"e","x","t">>,
          <<"e","x","t"," ","p","r","i","c","e">>,
          <<"a","m","o","u","n","t">>,
          <<"l","i","n","e"," ","t","o","t","a","l">>,
          <<"e","x","t","e","n","d","e","d"," ","p","r","i","c","e">>}]
>>

Canon == {HEADER_ALIASES[i].canon : i \in DOMAIN HEADER_ALIASES}

normalize_token(t) ==
    Let(Lower(t), LAMBDA l :
        Let(ReSub(NOT_ALNUM_RX, <<" ">>, l), Strip))

\* the alias families (positions in HEADER_ALIASES) with an alias in t
Families(t) ==
    {i \in DOMAIN HEADER_ALIASES :
        \E a \in HEADER_ALIASES[i].aliases : Contains(t, a)}

\* the first canonical key (in dict order) one of whose aliases occurs in
\* t, else the token itself
MapToken(t) ==
    Let(Families(t), LAMBDA hit :
        IF hit = {} THEN t ELSE HEADER_ALIASES[Min(hit)].canon)

NonEmpty(s) == s # <<>>

header_columns(header_line) ==
    Let(ReSplit(WIDE_GAP_RX, header_line), LAMBDA split :
        Let(SelectSeq(split, LAMBDA t : NonEmpty(Strip(t))), LAMBDA kept :
            Let(MapSeq(normalize_token, kept), LAMBDA toks :
                MapSeq(MapToken, toks))))

\* the number of alias families with an alias in the normalized line
HeaderHits(line) ==
    Let(normalize_token(line), LAMBDA l : Cardinality(Families(l)))

MinHeaderHits == 3

NoHeader == [idx |-> 0 - 1, cols |-> <<>>]

RECURSIVE FindHeaderFrom(_, _)
\* lines are numbered from 0, as enumerate() does
FindHeaderFrom(lines, idx) ==
    IF idx >= Len(lines) THEN NoHeader
    ELSE Let(Strip(lines[idx + 1]), LAMBDA line :
            IF line = <<>> THEN FindHeaderFrom(lines, idx + 1)
            ELSE IF HeaderHits(line) >= MinHeaderHits
                THEN [idx |-> idx, cols |-> header_columns(line)]
            ELSE FindHeaderFrom(lines, idx + 1))

find_header(lines) == FindHeaderFrom(lines, 0)

(***************************************************************************)
(*                               row parsing                               *)
(***************************************************************************)
\* list.index(x) wrapped in try/except ValueError: the first position
\* (from 0) of canon in cols, or -1
idx_of(cols, canon) ==
    Let({i \in DOMAIN cols : cols[i] = canon}, LAMBDA at :
        IF at = {} THEN 0 - 1 ELSE Min(at) - 1)

\* Python list indexing, which raises IndexError outside the list
IndexOk(list, i) ==
    IF i >= 0 THEN i < Len(list) ELSE 0 - i <= Len(list)

Item(list, i) ==
    IF ~IndexOk(list, i) THEN [ok |-> FALSE, v |-> <<>>]
    ELSE [ok |-> TRUE,
          v |-> IF i >= 0 THEN list[i + 1] ELSE list[Len(list) + i + 1]]

\* a slip in the guard: the column is taken to be there whenever the
\* header names it
HasColumnUnchecked(i, parts) == i # 0 - 1

\* the guard `i != -1 and i < len(parts)`
HasColumn(i, parts) == i # 0 - 1 /\ i < Len(parts)

\* a slip in the separator: the line is split at every run of whitespace
SplitOnAnyGap(raw) ==
    Let(Strip(raw), LAMBDA line :
        Let(ReSplit(Plus(Sp), line), LAMBDA split :
            Let(MapSeq(Strip, split), LAMBDA stripped :
                SelectSeq(stripped, NonEmpty))))

\* [p.strip() for p in re.split(r"\s{2,}", raw.strip()) if p.strip()]
SplitParts(raw) ==
    Let(Strip(raw), LAMBDA line :
        Let(ReSplit(WIDE_GAP_RX, line), LAMBDA split :
            Let(MapSeq(Strip, split), LAMBDA stripped :
                SelectSeq(stripped, NonEmpty))))

MinParts == 3

LineNumberWidth == 6

\* list slicing parts[a:b] with Python's clamping; a >= 0, b may be negative
PySlice(list, a, b) ==
    LET hi == IF b < 0 THEN Len(list) + b
              ELSE IF b > Len(list) THEN Len(list) ELSE b
    IN  IF hi <= a THEN <<>> ELSE SubSeq(list, a + 1, hi)

\* the four source tokens of a line, each with whether reading it raised
ColumnSources(parts, cols) ==
    LET i_line == idx_of(cols, K_line)
        i_item == idx_of(cols, K_item)
        i_desc == idx_of(cols, K_desc)
        i_qty  == idx_of(cols, K_qty)
        i_unit == idx_of(cols, K_unit)
        i_ext  == idx_of(cols, K_ext)
    IN  [price_src |->
            IF HasColumn(i_unit, parts) THEN Item(parts, i_unit)
            ELSE IF HasColumn(i_ext, parts) THEN Item(parts, i_ext)
            ELSE Let(SelectSeq(parts, LAMBDA p : ReFullMatch(MONEY_RX, p).ok),
                     LAMBDA cand : IF cand # <<>> THEN Item(cand, 0 - 1)
                                   ELSE Item(parts, 0 - 1)),
         qty_src |->
            IF HasColumn(i_qty, parts) THEN Item(parts, i_qty)
            ELSE IF Len(parts) >= 2 THEN Item(parts, 0 - 2)
            ELSE [ok |-> TRUE, v |-> <<>>],
         item_src |->
            IF HasColumn(i_item, parts) THEN Item(parts, i_item)
            ELSE IF HasColumn(i_desc, parts) THEN Item(parts, i_desc)
            ELSE Let(IF Len(parts) > 3 THEN PySlice(parts, 1, 0 - 2)
                                       ELSE PySlice(parts, 1, 0 - 1),
                     LAMBDA mid :
                        [ok |-> TRUE, v |-> Strip(JoinWith(<<" ">>, mid))]),
         line_src |->
            IF HasColumn(i_line, parts) THEN Item(parts, i_line)
            ELSE Item(parts, 0)]

\* the body of the loop of parse_with_columns from the column lookup on:
\* the dict built for one line, and whether an index raised on the way
ColumnRow(parts, cols) ==
    Let(ColumnSources(parts, cols), LAMBDA src :
        [raised |-> ~(src.price_src.ok /\ src.qty_src.ok /\ src.item_src.ok
                        /\ src.line_src.ok),
         line_number |->
            Let(ReSub(NOT_DIGIT_RX, <<>>, src.line_src.v), LAMBDA d :
                PySlice(d, 0, LineNumberWidth)),
         sku   |-> src.item_src.v,
         qty   |-> clean_qty(src.qty_src.v),
         price |-> clean_money(src.price_src.v)])

\* a slip in the sanity test: every candidate is kept
AcceptAny(data) == TRUE

\* the sanity test: `if data["qty"] or data["price"]`
RowAccepted(data) == data.qty # <<>> \/ data.price # <<>>

\* a row as the parsers return it, with the model's bookkeeping of where
\* it came from (no dict keys of the program): src is the number, from 0,
\* of the line in the text parsed, via the strategy that built the row and
\* pg the number, from 1, of the page in the list given to parse_multi_page
RowDict(data, idx, via) ==
    [line_number |-> data.line_number, sku |-> data.sku, qty |-> data.qty,
     price |-> data.price, src |-> idx, via |-> via, pg |-> 1]

\* what a call gives: it raised, or it returned rows
Returned(rows) == [raised |-> FALSE, rows |-> rows]

Raised == [raised |-> TRUE, rows |-> <<>>]

RECURSIVE ColumnsLoop(_, _, _, _)
\* the for loop of parse_with_columns, at the line numbered idx
ColumnsLoop(lines, idx, cols, rows) ==
    IF idx >= Len(lines) THEN Returned(rows)
    ELSE IF Strip(lines[idx + 1]) = <<>>
        THEN IF rows # <<>> THEN Returned(rows)
             ELSE ColumnsLoop(lines, idx + 1, cols, rows)
    ELSE IF is_total_like(lines[idx + 1]) THEN Returned(rows)
    ELSE Let(SplitParts(lines[idx + 1]), LAMBDA parts :
            IF Len(parts) < MinParts
                THEN ColumnsLoop(lines, idx + 1, cols, rows)
            ELSE Let(ColumnRow(parts, cols), LAMBDA data :
                    IF data.raised THEN Raised
                    ELSE IF RowAccepted(data)
                        THEN ColumnsLoop(lines, idx + 1, cols,
                                Append(rows, RowDict(data, idx, "columns")))
                    ELSE ColumnsLoop(lines, idx + 1, cols, rows)))

parse_with_columns(lines, start_idx, cols) ==
    ColumnsLoop(lines, start_idx + 1, cols, <<>>)

(***************************************************************************)
(*                             regex fallback                              *)
(***************************************************************************)
\* \$?\d[\d,]*\.\d{2}
PRICE_RX ==
    Cat(<<Opt(Lit("$")), D, Star(Cls(Digits \cup {","})), Lit("."),
          Rep(D, 2, 2)>>)

\* [^\d].*?
DESC_RX == Cat(<<NotCls(Digits), LazyRep(AnyChar, 0, Unbounded)>>)

\* [A-Z0-9][A-Z0-9\-_\/]+
SKU_RX ==
    Cat(<<Cls(UpperChars \cup Digits),
          Plus(Cls(UpperChars \cup Digits \cup {"-", "_", "/"}))>>)

LINE_PATTERNS == <<
    \* ^\s*(\d{1,4})\s+([^\d].*?)\s+(\d+(?:\.\d+)?)\s+(\$?\d[\d,]*\.\d{2})
    \*     (?:\s+\$?\d[\d,]*\.\d{2})?\s*$
    Cat(<<Bos, Star(Sp), Grp(1, Rep(D, 1, 4)), Plus(Sp), Grp(2, DESC_RX),
          Plus(Sp), Grp(3, QTY_RX), Plus(Sp), Grp(4, PRICE_RX),
          Opt(Cat(<<Plus(Sp), PRICE_RX>>)), Star(Sp), Eos>>),
    \* ^\s*(\d{1,4})\s+([A-Z0-9][A-Z0-9\-_\/]+)\s+(\d+(?:\.\d+)?)\s+
    \*     (\$?\d[\d,]*\.\d{2})\s*$
    Cat(<<Bos, Star(Sp), Grp(1, Rep(D, 1, 4)), Plus(Sp), Grp(2, SKU_RX),
          Plus(Sp), Grp(3, QTY_RX), Plus(Sp), Grp(4, PRICE_RX),
          Star(Sp), Eos>>),
    \* ^\s*(\d{1,4})\s+(\d+(?:\.\d+)?)\s+([^\d].*?)\s+(\$?\d[\d,]*\.\d{2})\s*$
    Cat(<<Bos, Star(Sp), Grp(1, Rep(D, 1, 4)), Plus(Sp), Grp(2, QTY_RX),
          Plus(Sp), Grp(3, DESC_RX), Plus(Sp), Grp(4, PRICE_RX),
          Star(Sp), Eos>>) >>

RECURSIVE FirstPattern(_, _)
\* the inner loop of parse_by_regex: the match of the first pattern, from
\* the one numbered p, that matches the line
FirstPattern(line, p) ==
    IF p > Len(LINE_PATTERNS) THEN NoMatch
    ELSE Let(ReMatch(LINE_PATTERNS[p], line), LAMBDA m :
            IF m.ok THEN m ELSE FirstPattern(line, p + 1))

\* a slip in the group taken: the price is read from the right end of the
\* line, whatever follows the quantity
RegexRowTailFirst(line) ==
    Let(FirstPattern(line, 1), LAMBDA m :
        IF ~m.ok THEN [matched |-> FALSE]
        ELSE Let(ReSplit(Plus(Sp), Strip(line)), LAMBDA ws :
                    [matched |-> TRUE,
                     line_number |->
                        ReSub(NOT_DIGIT_RX, <<>>, Group(m, line, 1)),
                     sku   |-> Strip(Group(m, line, 2)),
                     qty   |-> clean_qty(Group(m, line, 3)),
                     price |-> clean_money(ws[Len(ws)])]))

\* the dict appended for a line, if a pattern matches it
RegexRow(line) ==
    Let(FirstPattern(line, 1), LAMBDA m :
        IF ~m.ok THEN [matched |-> FALSE]
        ELSE Let([ln |-> Group(m, line, 1), item |-> Group(m, line, 2),
                  qty |-> Group(m, line, 3), price |-> Group(m, line, 4)],
                 LAMBDA g :
                    [matched |-> TRUE,
                     line_number |-> ReSub(NOT_DIGIT_RX, <<>>, g.ln),
                     sku   |-> Strip(g.item),
                     qty   |-> clean_qty(g.qty),
                     price |-> clean_money(g.price)]))

RECURSIVE RegexLoop(_, _, _)
\* the for loop of parse_by_regex, at the line numbered idx
RegexLoop(all_lines, idx, rows) ==
    IF idx >= Len(all_lines) THEN rows
    ELSE Let(Strip(all_lines[idx + 1]), LAMBDA line :
            IF line = <<>> \/ is_total_like(line)
                THEN RegexLoop(all_lines, idx + 1, rows)
            ELSE Let(RegexRow(line), LAMBDA data :
                    IF data.matched
                        THEN RegexLoop(all_lines, idx + 1,
                                Append(rows, RowDict(data, idx, "regex")))
                    ELSE RegexLoop(all_lines, idx + 1, rows)))

parse_by_regex(all_lines) == Returned(RegexLoop(all_lines, 0, <<>>))

(***************************************************************************)
(*                               main entry                                *)
(***************************************************************************)
\* the header-aware attempt, then the fallback when it gave no rows
ParseLines(lines) ==
    Let(find_header(lines), LAMBDA h :
        IF h.idx = 0 - 1 THEN parse_by_regex(lines)
        ELSE Let(parse_with_columns(lines, h.idx, h.cols), LAMBDA rows :
                IF rows.raised \/ rows.rows # <<>> THEN rows
                ELSE parse_by_regex(lines)))

parse_single_page(text) == Let(splitlines(text), ParseLines)

(***************************************************************************)
(*                          parsers/multi_page.py                          *)
(***************************************************************************)
RECURSIVE MultiPageLoopPrepend(_, _, _)
\* a slip in the accumulation: each page's rows are put before the rows
\* gathered so far
MultiPageLoopPrepend(pages, p, all_rows) ==
    IF p > Len(pages) THEN Returned(all_rows)
    ELSE Let(parse_single_page(pages[p]), LAMBDA page_rows :
            IF page_rows.raised THEN Raised
            ELSE MultiPageLoopPrepend(pages, p + 1,
                    MapSeq(LAMBDA r : [r EXCEPT !.pg = p], page_rows.rows)
                        \o all_rows))

RECURSIVE MultiPageLoop(_, _, _)
\* the for loop of parse_multi_page, at the page numbered p (from 1)
MultiPageLoop(pages, p, all_rows) ==
    IF p > Len(pages) THEN Returned(all_rows)
    ELSE Let(parse_single_page(pages[p]), LAMBDA page_rows :
            IF page_rows.raised THEN Raised
            ELSE MultiPageLoop(pages, p + 1,
                    all_rows \o MapSeq(LAMBDA r : [r EXCEPT !.pg = p],
                                       page_rows.rows)))

parse_multi_page(pages) == MultiPageLoop(pages, 1, <<>>)


(***************************************************************************)
(* The texts the model feeds the parsers.  A page is an optional header    *)
(* line followed by up to MaxBody lines of the corpus below.               *)
(***************************************************************************)
\* "Item  Description  Qty  Unit Price": four columns, wide gaps
L_HEADER == <<"I","t","e","m"," "," ","D","e","s","c","r","i","p","t","i","o","n"," "," ","Q","t","y"," "," ","U","n","i","t"," ","P","r","i","c","e">>

\* "Item Description Qty Price": the same names one space apart
L_HEADER_NARROW == <<"I","t","e","m"," ","D","e","s","c","r","i","p","t","i","o","n"," ","Q","t","y"," ","P","r","i","c","e">>

\* "1001  Widget A  10  $5.00": an item line with wide gaps
L_ROW == <<"1","0","0","1"," "," ","W","i","d","g","e","t"," ","A"," "," ","1","0"," "," ","$","5",".","0","0">>

\* "1 Widget 10 $5.00": an item line one space apart
L_ROW_NARROW == <<"1"," ","W","i","d","g","e","t"," ","1","0"," ","$","5",".","0","0">>

\* "Subtotal: $120.00"
L_SUBTOTAL == <<"S","u","b","t","o","t","a","l",":"," ","$","1","2","0",".","0","0">>

\* "2  Freight  1  $9.99": shaped like an item line, but a stop line
L_FREIGHT == <<"2"," "," ","F","r","e","i","g","h","t"," "," ","1"," "," ","$","9",".","9","9">>

\* "": a blank line
L_BLANK == <<>>

\* "1001  Widget A  10": fewer fields than the header has columns
L_SHORT == <<"1","0","0","1"," "," ","W","i","d","g","e","t"," ","A"," "," ","1","0">>

\* "A  B  C": three fields, neither a quantity nor a price among them
L_WORDS == <<"A"," "," ","B"," "," ","C">>

\* "Thank you": no field structure at all
L_GARBAGE == <<"T","h","a","n","k"," ","y","o","u">>

\* "Line  Item  Qty": a header that names no price column
L_HEADER_NOPRICE == <<"L","i","n","e"," "," ","I","t","e","m"," "," ","Q","t","y">>

\* "1001  Widget A  10  $5.00  $50.00": a unit price, then the extension
L_ROW_EXT == <<"1","0","0","1"," "," ","W","i","d","g","e","t"," ","A"," "," ","1","0"," "," ","$","5",".","0","0"," "," ","$","5","0",".","0","0">>

\* "1 Widget 10 $5.00 $50.00": the same shape one space apart
L_ROW_NARROW_EXT == <<"1"," ","W","i","d","g","e","t"," ","1","0"," ","$","5",".","0","0"," ","$","5","0",".","0","0">>

\* "1001  Widget A  Case500E  $5.00": a word where the quantity would be
L_EMBEDDED == <<"1","0","0","1"," "," ","W","i","d","g","e","t"," ","A"," "," ","C","a","s","e","5","0","0","E"," "," ","$","5",".","0","0">>

\* "1001  Widget A  10  (12.34)": a parenthesized (negative) amount
L_PAREN == <<"1","0","0","1"," "," ","W","i","d","g","e","t"," ","A"," "," ","1","0"," "," ","(","1","2",".","3","4",")">>

\* "1 Widget 10 $1,234.50": an amount with a thousands separator
L_THOUSANDS == <<"1"," ","W","i","d","g","e","t"," ","1","0"," ","$","1",",","2","3","4",".","5","0">>

HeaderLines == {L_HEADER, L_HEADER_NARROW}

\* the lines a page is made of below its header
BodyLines == {L_ROW, L_SUBTOTAL, L_FREIGHT, L_BLANK, L_SHORT, L_WORDS}

MaxBody == 3

MaxPages == 2

\* the text whose lines are ls
TextOf(ls) == JoinWith(<<"\n">>, ls)

Bodies == UNION {[1..n -> BodyLines] : n \in 0..MaxBody}

PageTexts == {TextOf(h \o b) : h \in {<<>>} \cup {<<l>> : l \in HeaderLines},
                               b \in Bodies}

\* the pages of the multi-page documents: an unreadable (empty) page, a
\* page with a header and an item line, a page with an item line only, a
\* page whose header is followed by an item line with single spaces, and
\* a page of garbage
DocPages == {<<>>, TextOf(<<L_HEADER, L_ROW>>), TextOf(<<L_ROW_NARROW>>),
             TextOf(<<L_HEADER, L_ROW_NARROW>>),
             TextOf(<<L_GARBAGE, L_SUBTOTAL>>)}

Docs == UNION {[1..n -> DocPages] : n \in 0..MaxPages}

\* the item lines whose quantity and money tokens the strategies read
TokenLines == {L_ROW, L_ROW_NARROW, L_ROW_EXT, L_ROW_NARROW_EXT, L_EMBEDDED,
               L_PAREN, L_THOUSANDS}

\* one item line, alone or under a header with or without a price column
LineTexts == {TextOf(h \o <<l>>) :
                h \in {<<>>, <<L_HEADER>>, <<L_HEADER_NOPRICE>>},
                l \in TokenLines}

(***************************************************************************)
(*                              run_agent.py                               *)
(***************************************************************************)
\* (\d{4}-\d{2}-\d{5})|\d{2,}-\d{2,}-\d{4,}
ORDER_NO_RX ==
    Alt(Grp(1, Cat(<<Rep(D, 4, 4), Lit("-"), Rep(D, 2, 2), Lit("-"),
                     Rep(D, 5, 5)>>)),
        Cat(<<Rep(D, 2, Unbounded), Lit("-"), Rep(D, 2, Unbounded), Lit("-"),
              Rep(D, 4, Unbounded)>>))

\* \d{4}-\d{2}-\d{5}
ORDER_NO_RX2 ==
    Cat(<<Rep(D, 4, 4), Lit("-"), Rep(D, 2, 2), Lit("-"), Rep(D, 5, 5)>>)

guess_order_number_from_name(name, run_id) ==
    Let(ReSearch(ORDER_NO_RX, name), LAMBDA m :
        IF m.ok THEN Group0(m, name)
        ELSE Let(ReSearch(ORDER_NO_RX2, name), LAMBDA m2 :
                IF m2.ok THEN Group0(m2, name) ELSE run_id))

HEADERS == <<"Order Number", "Part Number", "Description", "Ordered",
             "Ship-To", "Delivery Date", "Source File", "Page">>

\* str(d.get(key, default) or default), for a dict of strings
GetOr(d, key, default) ==
    IF key \in DOMAIN d /\ d[key] # <<>> THEN d[key] ELSE default

\* the Row built from a dict a parser returned; origin is the model's
\* bookkeeping of the parser and the line the dict came from
Row(d, order_no, fname, origin) ==
    [order_number  |-> GetOr(d, "Order Number", order_no),
     part_number   |-> GetOr(d, "Part Number", <<>>),
     description   |-> GetOr(d, "Description", <<>>),
     ordered       |-> GetOr(d, "Ordered", <<>>),
     ship_to       |-> GetOr(d, "Ship-To", <<>>),
     delivery_date |-> GetOr(d, "Delivery Date", <<>>),
     source_file   |-> GetOr(d, "Source File", fname),
     page          |-> GetOr(d, "Page", <<"1">>),
     origin        |-> origin]

to_list(r) ==
    <<r.order_number, r.part_number, r.description, r.ordered, r.ship_to,
      r.delivery_date, r.source_file, r.page>>

\* the file write_combined_csv writes: the header, then a record per row
write_combined_csv(rows) == <<HEADERS>> \o MapSeq(to_list, rows)

NoCsv == <<>>

\* the text of a PDF as extract_text_for_debug reads it: the pages' texts
\* (an unreadable page gives "") joined by newlines
RawText(pdf_pages) == JoinWith(<<"\n">>, pdf_pages)

\* the number of lines a page takes in the raw text
PageLineCount(text) ==
    Let(Len(splitlines(text)), LAMBDA n : IF n = 0 THEN 1 ELSE n)

RECURSIVE LocateFrom(_, _, _)
\* the page, and the line in it, of the line numbered idx of the raw text
LocateFrom(pdf_pages, p, idx) ==
    IF p >= Len(pdf_pages) \/ idx < PageLineCount(pdf_pages[p])
        THEN [pg |-> p, src |-> idx]
    ELSE LocateFrom(pdf_pages, p + 1, idx - PageLineCount(pdf_pages[p]))

\* the file names of the model's input folder
F_ORDER == <<"P","O","-","2","0","2","5","-","0","0","-","3","4","0","6","4",".","p","d","f">>

F_SCAN == <<"s","c","a","n",".","p","d","f">>

F_BLANK == <<"b","l","a","n","k",".","p","d","f">>

RUN_ID == <<"R","U","N","1">>

\* the PDFs an input folder may hold: a two-page order (a header and an
\* item line, then an item line), a one-page order, and a scan with no
\* text layer
PdfFiles == {
    [name |-> F_ORDER,
     pages |-> <<TextOf(<<L_HEADER, L_ROW>>), TextOf(<<L_ROW_NARROW>>)>>],
    [name |-> F_SCAN, pages |-> <<TextOf(<<L_HEADER, L_ROW>>)>>],
    [name |-> F_BLANK, pages |-> << <<>> >>]}

MaxPdfs == 3

\* the listings of an input folder: at most MaxPdfs files, in any order
Listings ==
    UNION {{l \in [1..n -> PdfFiles] :
                \A a, b \in 1..n : a # b => l[a].name # l[b].name} :
           n \in 0..MaxPdfs}

(***************************************************************************)
(* State.  pages, api, done, out: one call of a parser entry point and     *)
(* what it gave; direct: what each strategy gave when called on its own.   *)
(* Then a run of run_agent.run(): the PDFs found, the --debug directory,   *)
(* the parsers try_import_parsers bound (sp, mp), the position in run      *)
(* (pc) and in the loop over the PDFs (i), the rows collected, the         *)
(* combined CSV and the exit code; results records, per PDF, what each     *)
(* parser call gave.  The last nine are the job table of app.py, below.    *)
(***************************************************************************)
VARIABLES pages, api, done, out, direct, pdfs, debug, sp, mp, pc, i, rows, csv,
          code, results, jobs, q, pending, worker, poll, order, started,
          trail, posts

vars == <<pages, api, done, out, direct, pdfs, debug, sp, mp, pc, i, rows,
          csv, code, results, jobs, q, pending, worker, poll, order, started,
          trail, posts>>

parseVars == <<pages, api, done, out, direct>>

runVars == <<pdfs, debug, sp, mp, pc, i, rows, csv, code, results>>

appVars == <<jobs, q, pending, worker, poll, order, started, trail, posts>>

NoExit == 0 - 1

(***************************************************************************)
(* app.py: the job table and the queue.  jobs is _jobs, q is _q, pending   *)
(* the requests to /runs_async that have stored their job and not yet put  *)
(* it on the queue, worker the position of the worker thread and the job   *)
(* it holds, poll the last answer of /runs/{job_id}.  The rest is the      *)
(* model's bookkeeping: order, the jobs in the order they were put on the  *)
(* queue; started, the job ids in the order the worker marked them         *)
(* running; trail, for each job the statuses stored in _jobs, in order;    *)
(* posts, the callbacks posted, each with the status in its payload.       *)
(***************************************************************************)
MaxJobs == 2

\* the job ids uuid4 gives, all different, numbered by request
JobIds == 1..MaxJobs

NoneValue == "None"

\* class JobStatus(BaseModel)
JobStatus(status, error, outputs) ==
    [status |-> status, error |-> error, outputs |-> outputs]

\* _jobs.get(job_id) of a job_id that is not a key
Absent == JobStatus("absent", NoneValue, NoneValue)

\* body.input_urls: a list of URLs, possibly empty
UrlLists == {<<>>, <<"https://vendor/po.pdf">>}

\* body.callback_url
CallbackUrls == {NoneValue, "https://client/hook"}

\* the outputs dict run_agent_sync returns, and the one of a failed job
OUTPUTS == "combined_csv, changelog, stdout, stderr"

FAIL_OUTPUTS == "stdout, stderr"

Raises(msg) == [raised |-> TRUE, error |-> msg, outputs |-> NoneValue]

Returns(outputs) ==
    [raised |-> FALSE, error |-> NoneValue, outputs |-> outputs]

\* what a call run_agent_sync(run_id, input_urls) that ends may do: raise
\* ValueError on an empty list; else re-raise a download error, raise
\* RuntimeError when the agent exits with a code other than 0, or return
\* the outputs
run_agent_sync(input_urls) ==
    IF input_urls = <<>> THEN {Raises("input_urls must be non-empty")}
    ELSE {Raises("download error"), Raises("agent exited 3"),
          Returns(OUTPUTS)}

\* a slip in the except clause: the failure is logged and the status left
\* as it was
FailureNotRecorded(st, res) ==
    IF res.raised THEN st
    ELSE JobStatus("succeeded", NoneValue, res.outputs)

\* the status the worker stores after the run: succeeded with the outputs,
\* or, from the except clause, failed with str(e) and the log paths
Recorded(st, res) ==
    IF res.raised THEN JobStatus("failed", res.error, FAIL_OUTPUTS)
    ELSE JobStatus("succeeded", NoneValue, res.outputs)

\* a slip in the queue discipline: the newest job is taken first
DequeueNewest(queue) ==
    [job |-> queue[Len(queue)], rest |-> SubSeq(queue, 1, Len(queue) - 1)]

\* _q.get() on queue.Queue, which is first in, first out
Dequeue(queue) == [job |-> Head(queue), rest |-> Tail(queue)]

NoJob == [job_id |-> 0, input_urls |-> <<>>, callback_url |-> NoneValue]

\* no request to /runs/{job_id} answered yet
NoPoll == [code |-> 0, status |-> NoneValue, known |-> FALSE]

Idle == [pc |-> "get", job |-> NoJob]

\* the job ids a response of /runs_async has given out
Submitted == {order[k].job_id : k \in DOMAIN order}

NoApp ==
    /\ jobs = [j \in JobIds |-> Absent] /\ q = <<>> /\ pending = {}
    /\ worker = Idle /\ poll = NoPoll
    /\ order = <<>> /\ started = <<>>
    /\ trail = [j \in JobIds |-> <<>>] /\ posts = <<>>

\* a strategy that no caller has run on its own yet
NotCalled == [called |-> FALSE, raised |-> FALSE, rows |-> <<>>]

\* what a strategy run on its own gave
Called(result) ==
    [called |-> TRUE, raised |-> result.raised, rows |-> result.rows]

NoDirect == [columns |-> NotCalled, regex |-> NotCalled]

NoParse ==
    /\ pages = <<>> /\ api = "none" /\ done = FALSE /\ out = Returned(<<>>)
    /\ direct = NoDirect

NoRun ==
    /\ pdfs = <<>> /\ debug = "none"
    /\ sp = "none" /\ mp = "none" /\ pc = "idle" /\ i = 0
    /\ rows = <<>> /\ csv = NoCsv /\ code = NoExit /\ results = <<>>

Init ==
    /\ \/ api = "single" /\ pages \in {<<t>> : t \in PageTexts}
       \/ api = "multi" /\ pages \in Docs
    /\ done = FALSE
    /\ out = Returned(<<>>)
    /\ direct = NoDirect
    /\ NoRun
    /\ NoApp

\* a caller runs parse_single_page on a page text
CallSinglePage ==
    /\ api = "single" /\ ~done
    /\ out' = parse_single_page(pages[1])
    /\ done' = TRUE
    /\ UNCHANGED <<pages, api, direct>>
    /\ UNCHANGED runVars
    /\ UNCHANGED appVars

\* a caller runs parse_multi_page on a document's pages
CallMultiPage ==
    /\ api = "multi" /\ ~done
    /\ out' = parse_multi_page(pages)
    /\ done' = TRUE
    /\ UNCHANGED <<pages, api, direct>>
    /\ UNCHANGED runVars
    /\ UNCHANGED appVars

Next == CallSinglePage \/ CallMultiPage

Spec == Init /\ [][Next]_vars

(***************************************************************************)
(*         the two strategies of parsers/single_page.py, one line          *)
(***************************************************************************)
LinesInit ==
    /\ api = "single" /\ pages \in {<<t>> : t \in LineTexts}
    /\ done = FALSE
    /\ out = Returned(<<>>)
    /\ direct = NoDirect
    /\ NoRun
    /\ NoApp

\* the header of a page text: `h_idx, cols = find_header(lines)`
HeaderOf(text) == Let(splitlines(text), find_header)

\* `parse_with_columns(lines, h_idx, cols)` on the lines of a page text
UnderHeader(text) ==
    Let(splitlines(text), LAMBDA lines :
        Let(find_header(lines), LAMBDA h :
            parse_with_columns(lines, h.idx, h.cols)))

\* a caller runs the header strategy alone, as parse_single_page calls it:
\* find_header, then parse_with_columns below the header found
CallWithColumns ==
    /\ api = "single" /\ ~direct.columns.called
    /\ HeaderOf(pages[1]).idx # 0 - 1
    /\ direct' = [direct EXCEPT !.columns = Called(UnderHeader(pages[1]))]
    /\ UNCHANGED <<pages, api, done, out>>
    /\ UNCHANGED runVars
    /\ UNCHANGED appVars

\* a caller runs the regex strategy alone
CallByRegex ==
    /\ api = "single" /\ ~direct.regex.called
    /\ direct' = [direct EXCEPT !.regex =
            Called(parse_by_regex(splitlines(pages[1])))]
    /\ UNCHANGED <<pages, api, done, out>>
    /\ UNCHANGED runVars
    /\ UNCHANGED appVars

LinesNext == CallSinglePage \/ CallWithColumns \/ CallByRegex

SpecLines == LinesInit /\ [][LinesNext]_vars

(***************************************************************************)
(* run(): the steps of one run.                                            *)
(***************************************************************************)
EXIT_OK == 0

EXIT_NO_ROWS == 3

\* what try_import_parsers may bind a parser to: None when the import
\* fails, else the function imported
Bindings == {"none", "loaded"}

\* the --debug option: absent, a directory the dumps can be written to, or
\* a directory in which opening a dump for writing raises OSError
DebugDirs == {"none", "writable", "unwritable"}

RunInit ==
    /\ NoParse
    /\ NoApp
    /\ pdfs \in Listings
    /\ debug \in DebugDirs
    /\ sp = "none" /\ mp = "none"
    /\ pc = "start" /\ i = 0
    /\ rows = <<>> /\ csv = NoCsv /\ code = NoExit /\ results = <<>>

\* find_pdfs; no PDF ends the run with 3
RunIntake ==
    /\ pc = "start"
    /\ IF pdfs = <<>>
          THEN pc' = "done" /\ code' = EXIT_NO_ROWS
          ELSE pc' = "debug" /\ UNCHANGED code
    /\ UNCHANGED <<pdfs, debug, sp, mp, i, rows, csv, results>>
    /\ UNCHANGED parseVars
    /\ UNCHANGED appVars

\* write_debug_texts opens a dump for writing: for a PDF whose text was
\* extracted (extract_text_for_debug gives "" when the reader is missing
\* or fails) and is not empty, when a debug directory is given
WritesDump(pdf, extracted) ==
    debug # "none" /\ extracted /\ RawText(pdf.pages) # <<>>

\* the loop of write_debug_texts over the PDFs, then try_import_parsers.
\* Nothing in run() catches what open() raises in write_debug_texts: the
\* exception leaves run(), and main() exits with 1
RunWriteDebug ==
    /\ pc = "debug"
    /\ \E extracted \in BOOLEAN :
          IF debug = "unwritable"
                /\ \E k \in DOMAIN pdfs : WritesDump(pdfs[k], extracted)
             THEN /\ pc' = "aborted"
                  /\ UNCHANGED <<sp, mp, i>>
             ELSE /\ pc' = "parse" /\ i' = 1
                  /\ sp' \in Bindings /\ mp' \in Bindings
    /\ UNCHANGED <<pdfs, debug, rows, csv, code, results>>
    /\ UNCHANGED parseVars
    /\ UNCHANGED appVars

\* the dicts of a parser's list, each with the parser and the line of the
\* PDF it came from
Tagged(by, pdf_pages, rs, whole) ==
    MapSeq(LAMBDA r :
              [d |-> r, by |-> by,
               at |-> IF whole THEN LocateFrom(pdf_pages, 1, r.src)
                      ELSE [pg |-> r.pg, src |-> r.src]],
           rs)

\* the parser is None: the call is not made
Skipped == [called |-> FALSE, raised |-> FALSE, dicts |-> <<>>]

\* the call raised; the except clause logs a warning
Failed == [called |-> TRUE, raised |-> TRUE, dicts |-> <<>>]

\* the call returned a list
Gave(dicts) == [called |-> TRUE, raised |-> FALSE, dicts |-> dicts]

\* what a call parser(pdf_path, order_no, debug_dir) of a bound parser may
\* give: an exception (the parse functions of this repository take one
\* argument, so that this call of them raises TypeError; a parser with the
\* signature run() expects may raise on a PDF too), or the list of dicts
\* that the parse function gives on the text of the PDF: its raw text for
\* single_page (whole), its list of page texts for multi_page
CallParser(binding, result, by, pdf_pages, whole) ==
    IF binding = "none" THEN {Skipped}
    ELSE {Failed} \cup
         (IF result.raised THEN {}
          ELSE {Gave(Tagged(by, pdf_pages, result.rows, whole))})

\* try: out = parser(...); parsed_dicts.extend(out)  except Exception: log
TryExtend(parsed_dicts, result) ==
    IF result.called /\ ~result.raised THEN parsed_dicts \o result.dicts
    ELSE parsed_dicts

\* a slip in the error handling: a parser's exception discards the rows
\* collected so far
RowsLostOnError(all, fname, order_no, so, mo) ==
    IF so.raised \/ mo.raised THEN <<>>
    ELSE all \o MapSeq(LAMBDA t : Row(t.d, order_no, fname,
                                      [file |-> fname, by |-> t.by,
                                       at |-> t.at]),
                       so.dicts \o mo.dicts)

\* the rows after the loop body has run on one PDF
RowsAfter(all, fname, order_no, so, mo) ==
    all \o MapSeq(LAMBDA t : Row(t.d, order_no, fname,
                                 [file |-> fname, by |-> t.by, at |-> t.at]),
                  TryExtend(TryExtend(<<>>, so), mo))

\* one turn of the loop over the PDFs (no --order-number override given)
RunParsePdf ==
    /\ pc = "parse"
    /\ \E so \in CallParser(sp, parse_single_page(RawText(pdfs[i].pages)),
                            "single_page", pdfs[i].pages, TRUE),
          mo \in CallParser(mp, parse_multi_page(pdfs[i].pages),
                            "multi_page", pdfs[i].pages, FALSE) :
          /\ rows' = RowsAfter(rows, pdfs[i].name,
                        guess_order_number_from_name(pdfs[i].name, RUN_ID),
                        so, mo)
          /\ results' = Append(results, [sp |-> so, mp |-> mo])
    /\ IF i < Len(pdfs) THEN i' = i + 1 /\ pc' = "parse"
                        ELSE i' = i /\ pc' = "finish"
    /\ UNCHANGED <<pdfs, debug, sp, mp, csv, code>>
    /\ UNCHANGED parseVars
    /\ UNCHANGED appVars

\* a slip in the exit code: success reported whatever was parsed
ExitOkAlways(all) == EXIT_OK

\* the value run() returns once the loop is over
ExitCode(all) == IF all # <<>> THEN EXIT_OK ELSE EXIT_NO_ROWS

\* the combined CSV is written when there are rows
RunFinish ==
    /\ pc = "finish"
    /\ csv' = IF rows # <<>> THEN write_combined_csv(rows) ELSE csv
    /\ code' = ExitCode(rows)
    /\ pc' = "done"
    /\ UNCHANGED <<pdfs, debug, sp, mp, i, rows, results>>
    /\ UNCHANGED parseVars
    /\ UNCHANGED appVars

RunNext == RunIntake \/ RunWriteDebug \/ RunParsePdf \/ RunFinish

SpecRun == RunInit /\ [][RunNext]_vars

(***************************************************************************)
(*          app.py: /runs_async, /runs/{job_id} and the worker             *)
(***************************************************************************)
JobsInit == NoParse /\ NoRun /\ NoApp

\* `_jobs[job_id] = st` (and _save_job), with the model's record of it
Store(j, st) ==
    /\ jobs' = [jobs EXCEPT ![j] = st]
    /\ trail' = [trail EXCEPT ![j] = Append(@, st.status)]

\* POST /runs_async, up to _save_job: a fresh job_id, stored as queued
StartRunAsync ==
    \E j \in JobIds, urls \in UrlLists, cb \in CallbackUrls :
        /\ jobs[j] = Absent
        /\ \A k \in JobIds : k < j => jobs[k] # Absent
        /\ Store(j, JobStatus("queued", NoneValue, NoneValue))
        /\ pending' = pending \cup
                {[job_id |-> j, input_urls |-> urls, callback_url |-> cb]}
        /\ UNCHANGED <<q, worker, poll, order, started, posts>>
        /\ UNCHANGED <<parseVars, runVars>>

\* POST /runs_async, from _q.put to the response that gives the job_id
Enqueue ==
    \E job \in pending :
        /\ q' = Append(q, job)
        /\ order' = Append(order, job)
        /\ pending' = pending \ {job}
        /\ UNCHANGED <<jobs, worker, poll, started, trail, posts>>
        /\ UNCHANGED <<parseVars, runVars>>

\* GET /runs/{job_id}: the status in _jobs; a job_id that is not there has
\* no state file either (_save_job follows every store), which gives 404
GetRunStatus ==
    \E j \in JobIds :
        /\ poll' = [code |-> IF jobs[j] = Absent THEN 404 ELSE 200,
                    status |-> IF jobs[j] = Absent THEN NoneValue
                               ELSE jobs[j].status,
                    known |-> j \in Submitted]
        /\ UNCHANGED <<jobs, q, pending, worker, order, started, trail,
                       posts>>
        /\ UNCHANGED <<parseVars, runVars>>

\* the worker thread: `job = _q.get()`, which blocks on an empty queue
WorkerGet ==
    /\ worker.pc = "get" /\ q # <<>>
    /\ worker' = [pc |-> "mark", job |-> Dequeue(q).job]
    /\ q' = Dequeue(q).rest
    /\ UNCHANGED <<jobs, pending, poll, order, started, trail, posts>>
    /\ UNCHANGED <<parseVars, runVars>>

\* the worker thread: the job's status is stored as running
WorkerMarkRunning ==
    /\ worker.pc = "mark"
    /\ Store(worker.job.job_id,
             JobStatus("running", jobs[worker.job.job_id].error,
                       jobs[worker.job.job_id].outputs))
    /\ started' = Append(started, worker.job.job_id)
    /\ worker' = [worker EXCEPT !.pc = "run"]
    /\ UNCHANGED <<q, pending, poll, order, posts>>
    /\ UNCHANGED <<parseVars, runVars>>

\* the worker thread: run_agent_sync returns or raises, and the status is
\* stored: succeeded, or failed by the except clause
WorkerRun ==
    /\ worker.pc = "run"
    /\ \E res \in run_agent_sync(worker.job.input_urls) :
            Store(worker.job.job_id,
                  Recorded(jobs[worker.job.job_id], res))
    /\ worker' = [worker EXCEPT !.pc = "finally"]
    /\ UNCHANGED <<q, pending, poll, order, started, posts>>
    /\ UNCHANGED <<parseVars, runVars>>

\* the worker thread: the finally clause posts the stored status to the
\* callback_url, if the job has one, and the loop goes back to _q.get()
WorkerFinally ==
    /\ worker.pc = "finally"
    /\ posts' = IF worker.job.callback_url # NoneValue
                   THEN Append(posts,
                               [job_id |-> worker.job.job_id,
                                status |-> jobs[worker.job.job_id].status])
                   ELSE posts
    /\ worker' = Idle
    /\ UNCHANGED <<jobs, q, pending, poll, order, started, trail>>
    /\ UNCHANGED <<parseVars, runVars>>

WorkerStep ==
    WorkerGet \/ WorkerMarkRunning \/ WorkerRun \/ WorkerFinally

JobsNext == StartRunAsync \/ Enqueue \/ GetRunStatus \/ WorkerStep

SpecJobs == JobsInit /\ [][JobsNext]_vars

\* the worker thread runs whenever it can: it is started with the module
\* and never ends, and each call of run_agent_sync returns or raises
SpecJobsFair == JobsInit /\ [][JobsNext]_vars /\ WF_vars(WorkerStep)

(***************************************************************************)
(*                    properties of the parsers (Spec)                     *)
(***************************************************************************)
\* the lines of the page a returned dict came from
LinesOfPage(p) == splitlines(pages[p])

\* the line a returned dict came from
SourceLine(r) == LinesOfPage(r.pg)[r.src + 1]

\* the line contains one of the stop words, whatever its case
HasStopHint(line) ==
    Let(Lower(line), LAMBDA l :
        \E k \in {<<"s","u","b","t","o","t","a","l">>,
                  <<"t","o","t","a","l">>, <<"t","a","x">>,
                  <<"f","r","e","i","g","h","t">>,
                  <<"g","r","a","n","d"," ","t","o","t","a","l">>} :
            Contains(l, k))

\* C1: no row returned by parse_single_page (or, page by page, by
\* parse_multi_page) comes from a line that contains a stop hint, whichever
\* strategy produced the row
C1_StopLineNeverEmitted ==
    done => \A k \in DOMAIN out.rows : ~HasStopHint(SourceLine(out.rows[k]))

\* a page that holds "Subtotal: $120.00" and a freight line among item
\* lines has been parsed, and gave rows
C1_Witness ==
    /\ done /\ api = "single" /\ out.rows # <<>>
    /\ \E k \in DOMAIN LinesOfPage(1) : LinesOfPage(1)[k] = L_SUBTOTAL
    /\ \E k \in DOMAIN LinesOfPage(1) : LinesOfPage(1)[k] = L_FREIGHT

\* the fields of the dicts returned
Fields(rs) ==
    MapSeq(LAMBDA r : <<r.line_number, r.sku, r.qty, r.price>>, rs)

\* seq without its k-th element
Without(seq, k) == SubSeq(seq, 1, k - 1) \o SubSeq(seq, k + 1, Len(seq))

\* a candidate line that resolves to nothing: it splits into enough fields
\* under the header's columns, gives neither a quantity nor a price there,
\* matches no line pattern, and is not a stop line
EmptyCandidate(line, cols) ==
    /\ ~HasStopHint(line)
    /\ Let(SplitParts(line), LAMBDA parts :
            /\ Len(parts) >= MinParts
            /\ Let(ColumnRow(parts, cols), LAMBDA data :
                    data.qty = <<>> /\ data.price = <<>>))
    /\ ~RegexRow(Strip(line)).matched

\* the page reads the same with and without each empty candidate below
\* its header
EmptyCandidatesDropped(lines) ==
    Let(find_header(lines), LAMBDA h :
        h.idx # 0 - 1 =>
            \A k \in (h.idx + 2)..Len(lines) :
                EmptyCandidate(lines[k], h.cols) =>
                    Let(ParseLines(Without(lines, k)), LAMBDA less :
                        ~less.raised /\ Fields(less.rows) = Fields(out.rows)))

\* C2: every row returned has its sku, its qty or its price non-empty, and
\* a candidate line that resolves to nothing is dropped without raising
\* and without ending the scan: the page gives the rows it gives without
\* that line
C2_RowsHaveContent ==
    done =>
        /\ ~out.raised
        /\ \A k \in DOMAIN out.rows :
              out.rows[k].sku # <<>> \/ out.rows[k].qty # <<>>
                \/ out.rows[k].price # <<>>
        /\ api = "single" => Let(LinesOfPage(1), EmptyCandidatesDropped)

\* under a header, an item line that follows a candidate resolving to
\* nothing has been emitted
C2_Witness ==
    /\ done /\ api = "single"
    /\ pages[1] = TextOf(<<L_HEADER, L_WORDS, L_ROW>>)
    /\ Len(out.rows) = 1 /\ out.rows[1].src = 2
    /\ EmptyCandidate(L_WORDS, find_header(LinesOfPage(1)).cols)

\* C6: neither entry point raises, whatever the page texts (no page, empty
\* pages, blank lines, no header, fewer fields than columns, garbage), and
\* a document whose every page is blank gives no row
C6_NeverRaises ==
    done =>
        /\ ~out.raised
        /\ (\A p \in DOMAIN pages : Strip(pages[p]) = <<>>) => out.rows = <<>>

\* a line with fewer fields than its header has columns has been parsed
\* into a row
C6_Witness ==
    /\ done /\ api = "single" /\ ~out.raised
    /\ pages[1] = TextOf(<<L_HEADER, L_SHORT>>)
    /\ Len(SplitParts(L_SHORT)) < Len(find_header(LinesOfPage(1)).cols)
    /\ Len(out.rows) = 1

\* the first stop line below the header (numbered from 1), or the end
FirstStop(lines, from) ==
    Let({k \in from..Len(lines) : HasStopHint(lines[k])}, LAMBDA stop :
        IF stop = {} THEN Len(lines) + 1 ELSE Min(stop))

\* a line the column strategy accepts as an item line
ItemLine(line, cols) ==
    Let(SplitParts(line), LAMBDA parts :
        /\ Len(parts) >= MinParts
        /\ RowAccepted(ColumnRow(parts, cols)))

\* every item line between the header and the first stop line is emitted
ScanEndsAtStopOnly(lines) ==
    Let(find_header(lines), LAMBDA h :
        (h.idx # 0 - 1 /\ out.rows # <<>> /\ out.rows[1].via = "columns") =>
            \A k \in (h.idx + 2)..(FirstStop(lines, h.idx + 2) - 1) :
                ItemLine(lines[k], h.cols) =>
                    \E n \in DOMAIN out.rows : out.rows[n].src = k - 1)

\* C9: below a header, a blank line does not end the scan: every item line
\* before the first stop line (or the end of the page) is emitted, also
\* after a blank line that follows an accepted row
C9_BlankNeverEndsScan ==
    (done /\ api = "single") => Let(LinesOfPage(1), ScanEndsAtStopOnly)

\* the columns of the descriptor that resolved to a canonical name
Resolved(cols) == {c \in DOMAIN cols : cols[c] \in Canon}

\* C10: rows come from the column strategy only when the descriptor of the
\* page's header has at least 3 resolved canonical columns
C10_ColumnsNeedThreeResolved ==
    (done /\ api = "single") =>
        \A n \in DOMAIN out.rows :
            out.rows[n].via = "columns" =>
                Cardinality(Resolved(find_header(LinesOfPage(1)).cols))
                    >= 3

(***************************************************************************)
(*                     properties of run() (SpecRun)                       *)
(***************************************************************************)
\* str(n) for a page number
PageString(n) ==
    <<(<<"0", "1", "2", "3", "4", "5", "6", "7", "8", "9">>)[n + 1]>>

GivenBy(k) ==
    MapSeq(LAMBDA t : [file |-> pdfs[k].name, by |-> t.by, at |-> t.at],
           results[k].sp.dicts \o results[k].mp.dicts)

\* C5: the rows collected are, in order, what the parser calls that did
\* not raise gave, for every PDF handled so far; a call that raised neither
\* ends the loop nor touches the rows of the other PDFs
C5_FailureIsIsolated ==
    /\ pc \in {"finish", "done"} => Len(results) = Len(pdfs)
    /\ MapSeq(LAMBDA r : r.origin, rows)
         = Concat(AsSeq([k \in DOMAIN results |-> GivenBy(k)], Len(results)))

\* a parser raised on the second of three PDFs and the rows hold what the
\* first and the third gave
C5_Witness ==
    /\ pc = "done" /\ Len(pdfs) = 3
    /\ results[2].sp.raised /\ results[2].mp.raised
    /\ \E k \in DOMAIN rows : rows[k].origin.file = pdfs[1].name
    /\ \E k \in DOMAIN rows : rows[k].origin.file = pdfs[3].name
    /\ \A k \in DOMAIN rows : rows[k].origin.file # pdfs[2].name

Words(line) ==
    Let(Strip(line), LAMBDA t :
        IF t = <<>> THEN <<>> ELSE ReSplit(Plus(Sp), t))

\* a money token: a word shaped like an amount with cents, "$5.00", "5.00"
IsMoney(w) == ReFullMatch(PRICE_RX, w).ok

\* a quantity token: a word that is a number, "10", "2.5"
IsQuantity(w) == ReFullMatch(QTY_RX, w).ok

MoneyTokens(line) == SelectSeq(Words(line), IsMoney)

\* the words begin like an item line: a line number of one to four digits,
\* then a description that does not begin with a digit
BeginsItem(ws) ==
    /\ ReFullMatch(Rep(D, 1, 4), ws[1]).ok
    /\ ws[2][1] \notin Digits

\* "line desc qty $a $b": a quantity, then two money tokens, end the line
QtyPriceExt(ws) ==
    /\ Len(ws) >= 5 /\ BeginsItem(ws)
    /\ IsQuantity(ws[Len(ws) - 2])
    /\ IsMoney(ws[Len(ws) - 1]) /\ IsMoney(ws[Len(ws)])

\* "line desc qty $a": a quantity, then one money token, end the line
QtyPrice(ws) ==
    /\ Len(ws) >= 4 /\ BeginsItem(ws) /\ ~QtyPriceExt(ws)
    /\ IsQuantity(ws[Len(ws) - 1]) /\ IsMoney(ws[Len(ws)])

Alnum == UpperChars \cup LowerChars \cup Digits

\* w stands in the line as a token of its own: somewhere it is written with
\* no letter or digit right before it or right after it
StandsAlone(w, line) ==
    \E p \in 1..(Len(line) - Len(w) + 1) :
        /\ SubSeq(line, p, p + Len(w) - 1) = w
        /\ p = 1 \/ line[p - 1] \notin Alnum
        /\ p + Len(w) > Len(line) \/ line[p + Len(w)] \notin Alnum

\* C12: the quantity of an emitted row is never a number cut out of an
\* alphanumeric word (the "500" of "Case500E"): it stands in its line as a
\* token of its own
C12_QtyNeverFromInsideWord ==
    done => \A k \in DOMAIN out.rows :
        out.rows[k].qty # <<>> =>
            StandsAlone(out.rows[k].qty, SourceLine(out.rows[k]))

\* -?\d+(?:\.\d+)?: a plain decimal, with no symbol and no separator
PLAIN_DECIMAL_RX ==
    Cat(<<Opt(Lit("-")), Plus(D), Opt(Cat(<<Lit("."), Plus(D)>>))>>)

\* the digits and the decimal point of a token
Unsigned(w) == SelectSeq(w, LAMBDA c : c \in Digits \cup {"."})

\* a token written in parentheses, as accountants write a negative amount
Parenthesized(w) == Len(w) >= 3 /\ w[1] = "(" /\ w[Len(w)] = ")"

\* C13: the price of an emitted row is a plain decimal string, the currency
\* symbol and the thousands separators stripped, and a price read from a
\* parenthesized amount is negative: "(12.34)" gives "-12.34" and
\* "$1,234.50" gives "1234.50"
C13_MoneyIsPlainDecimal ==
    done => \A k \in DOMAIN out.rows :
        Let(out.rows[k], LAMBDA r :
            Let(Words(SourceLine(r)), LAMBDA ws :
                r.price # <<>> =>
                    /\ ReFullMatch(PLAIN_DECIMAL_RX, r.price).ok
                    /\ (Parenthesized(ws[Len(ws)])
                            /\ Unsigned(ws[Len(ws)]) = Unsigned(r.price))
                        => r.price[1] = "-"))

\* the header and the row of the clean page
CleanPage == TextOf(<<L_HEADER, L_ROW>>)

\* a strategy run on its own accepted the row of the clean page: it gave one
\* dict, from the row's line, with quantity "10" and price "5.00"
AcceptedCleanRow(result) ==
    /\ ~result.raised /\ Len(result.rows) = 1
    /\ SourceLine(result.rows[1]) = L_ROW
    /\ result.rows[1].qty = <<"1", "0">>
    /\ result.rows[1].price = <<"5", ".", "0", "0">>

\* C14: on the page "Item  Description  Qty  Unit Price" / "1001  Widget A
\* 10  $5.00" the regex strategy and the header strategy, each run on its
\* own, both accept the row and agree on quantity "10" and price "5.00"
C14_StrategiesAgreeOnCleanRow ==
    (pages = <<CleanPage>> /\ direct.columns.called /\ direct.regex.called)
        => /\ AcceptedCleanRow(direct.columns)
           /\ AcceptedCleanRow(direct.regex)
           /\ direct.columns.rows[1].qty = direct.regex.rows[1].qty
           /\ direct.columns.rows[1].price = direct.regex.rows[1].price

\* both strategies have been run on the clean page, and each gave a row by
\* its own means
C14_Witness ==
    /\ pages = <<CleanPage>>
    /\ direct.columns.called /\ direct.regex.called
    /\ Len(direct.columns.rows) = 1 /\ direct.columns.rows[1].via = "columns"
    /\ Len(direct.regex.rows) = 1 /\ direct.regex.rows[1].via = "regex"

(***************************************************************************)
(*                        the pages of a document                          *)
(***************************************************************************)
\* the fields of the dicts parse_single_page returns for one page text
PageFields(text) == Fields(parse_single_page(text).rows)

\* the dicts of a list that came from page p
FromPage(rs, p) == SelectSeq(rs, LAMBDA r : r.pg = p)

\* C17: parse_multi_page(pages) returns the concatenation, in page order, of
\* parse_single_page(p) over the pages: the rows of an earlier page come
\* before those of a later one, the count is the sum of the pages' counts,
\* an empty page gives no row, and the rows of a page are what the page
\* gives alone
C17_MultiPageIsConcatenation ==
    (done /\ api = "multi") =>
        /\ ~out.raised
        /\ Fields(out.rows) = Concat(MapSeq(PageFields, pages))
        /\ \A a, b \in DOMAIN out.rows :
                a < b => out.rows[a].pg <= out.rows[b].pg
        /\ \A p \in DOMAIN pages :
                /\ Fields(FromPage(out.rows, p)) = PageFields(pages[p])
                /\ pages[p] = <<>> => FromPage(out.rows, p) = <<>>

\* a document of two pages, each of which gives a row, has been parsed
C17_Witness ==
    /\ done /\ api = "multi"
    /\ pages = <<TextOf(<<L_HEADER, L_ROW>>), TextOf(<<L_ROW_NARROW>>)>>
    /\ Len(out.rows) = 2
    /\ out.rows[1].pg = 1 /\ out.rows[2].pg = 2
    /\ Fields(<<out.rows[1]>>) # Fields(<<out.rows[2]>>)

(***************************************************************************)
(*                 properties of run(), continued (SpecRun)                *)
(***************************************************************************)
\* C15: the debug directory is never required and never in the way: a run
\* given one goes on to parse and returns as a run given none does, whatever
\* happens while the debug dumps are produced or written
C15_DebugNeverAborts == debug # "none" => pc # "aborted"

\* the dicts the parser calls gave, in the order run() made rows of them
ParsedDicts ==
    Concat(AsSeq([k \in DOMAIN results |->
                    MapSeq(LAMBDA t : t.d,
                           results[k].sp.dicts \o results[k].mp.dicts)],
                 Len(results)))

TerminalStatuses == {"succeeded", "failed"}

Terminal(j) == jobs[j].status \in TerminalStatuses

\* the statuses stored for a job so far are a beginning of queued, running,
\* then succeeded or failed
LifecycleSoFar(statuses) ==
    /\ Len(statuses) <= 3
    /\ Len(statuses) >= 1 => statuses[1] = "queued"
    /\ Len(statuses) >= 2 => statuses[2] = "running"
    /\ Len(statuses) >= 3 => statuses[3] \in TerminalStatuses

Queued(j) == Only({order[k] : k \in {n \in DOMAIN order : order[n].job_id = j}})

HasCallback(j) == Queued(j).callback_url # NoneValue

PostsOf(j) == SelectSeq(posts, LAMBDA p : p.job_id = j)

\* a callback is posted for a job that has a callback_url only, at most
\* once, and with a terminal status in its payload; and a job whose run
\* raised (as a job with no input_urls must) is failed
PostedAfterTheEnd ==
    /\ \A k \in DOMAIN posts :
        /\ posts[k].status \in TerminalStatuses
        /\ posts[k].status = jobs[posts[k].job_id].status
        /\ HasCallback(posts[k].job_id)
    /\ \A j \in JobIds : Len(PostsOf(j)) <= 1
    /\ \A j \in Submitted :
        (Terminal(j) /\ Queued(j).input_urls = <<>>)
            => jobs[j].status = "failed"

\* C19: every job put on the queue ends succeeded or failed, whatever the
\* runs of the jobs before it did (a run that raises fails its own job and
\* the worker goes on); and a job with a callback_url has its callback
\* posted exactly once, after its terminal status was stored
C19_EveryJobEnds ==
    /\ []PostedAfterTheEnd
    /\ \A j \in JobIds :
        (j \in Submitted) ~>
            (Terminal(j) /\ (HasCallback(j) => Len(PostsOf(j)) = 1))

\* the first job on the queue had no input_urls and failed, the job behind
\* it ran and succeeded, and each had its callback posted
C19_Witness ==
    /\ Len(order) = 2
    /\ order[1].input_urls = <<>> /\ jobs[order[1].job_id].status = "failed"
    /\ jobs[order[2].job_id].status = "succeeded"
    /\ HasCallback(1) /\ HasCallback(2)
    /\ Len(PostsOf(1)) = 1 /\ Len(PostsOf(2)) = 1
    /\ worker = Idle

============================================================================
